---- MODULE Spec2Model ----
(***************************************************************************)
(* Webhook authentication and parsing pipeline of the xRocket Pay SDK      *)
(* (src/src/webhook-utils.ts, src/src/types/webhook.ts).                    *)
(*                                                                         *)
(* A request body is a sequence of JSON lexemes (one lexeme stands for one *)
(* unit of the raw text); JSON.parse is a recursive-descent parser over    *)
(* that sequence and JSON values are tagged records.  SHA-256 and          *)
(* HMAC-SHA-256 are stood for by a fixed-width polynomial digest modulo a  *)
(* prime, rendered as lowercase hexadecimal text, so that a signature is a *)
(* sequence of characters compared character by character.                 *)
(***************************************************************************)
EXTENDS Integers, Sequences, FiniteSets, TLC

VARIABLES body, signature, token, fault, op, outcome, calls, paid, summary,
          host, client, inv

vars ==
    <<body, signature, token, fault, op, outcome, calls, paid, summary, host,
      client, inv>>

-----------------------------------------------------------------------------
(* Bounds of the model. *)

\* Largest invoice id carried by the generated envelopes.
MaxId == 2
\* Number of characters an over-long signature carries past the digest.
MaxExtra == 1
\* Number of HTTP requests a client is followed for.
MaxRequests == 2
\* Number of invocations running at the same time.
MaxCalls == 2

-----------------------------------------------------------------------------
(* JSON values as JavaScript sees them after JSON.parse. *)

JBlank == [k |-> "undefined", b |-> FALSE, n |-> 0, s |-> "", a |-> <<>>, o |-> <<>>]

JUndef == JBlank

JNull == [JBlank EXCEPT !.k = "null"]

JBool(x) == [JBlank EXCEPT !.k = "bool", !.b = x]

JNum(x) == [JBlank EXCEPT !.k = "num", !.n = x]

JStr(x) == [JBlank EXCEPT !.k = "str", !.s = x]

JArr(x) == [JBlank EXCEPT !.k = "arr", !.a = x]

\* An object is its members in insertion order, each [key, val].
JObj(x) == [JBlank EXCEPT !.k = "obj", !.o = x]

Member(key, val) == [key |-> key, val |-> val]

-----------------------------------------------------------------------------
(* The raw text: lexemes. *)

Lex(t, s, n) == [t |-> t, s |-> s, n |-> n]

P(t) == Lex(t, "", 0)

StrLex(s) == Lex("str", s, 0)

NumLex(n) == Lex("num", "", n)

\* A unit of text that starts no JSON lexeme (as the n of "{not json").
Junk == P("junk")

RECURSIVE StringifyElems(_, _), StringifyMembers(_, _)

\* JSON.stringify of a value (no indentation).
Stringify(v) ==
    CASE v.k = "null" -> <<P("null")>>
      [] v.k = "bool" -> <<P(IF v.b THEN "true" ELSE "false")>>
      [] v.k = "num" -> <<NumLex(v.n)>>
      [] v.k = "str" -> <<StrLex(v.s)>>
      [] v.k = "arr" -> <<P("[")>> \o StringifyElems(v.a, 1) \o <<P("]")>>
      [] v.k = "obj" -> <<P("{")>> \o StringifyMembers(v.o, 1) \o <<P("}")>>
      [] OTHER -> <<>>

StringifyElems(a, i) ==
    IF i > Len(a) THEN <<>>
    ELSE (IF i > 1 THEN <<P(",")>> ELSE <<>>)
         \o Stringify(a[i]) \o StringifyElems(a, i + 1)

StringifyMembers(o, i) ==
    IF i > Len(o) THEN <<>>
    ELSE (IF i > 1 THEN <<P(",")>> ELSE <<>>)
         \o <<StrLex(o[i].key), P(":")>> \o Stringify(o[i].val)
         \o StringifyMembers(o, i + 1)

-----------------------------------------------------------------------------
(* JSON.parse. *)

ParseFail == [ok |-> FALSE, v |-> JUndef, rest |-> <<>>]

ParseOk(v, rest) == [ok |-> TRUE, v |-> v, rest |-> rest]

Drop(ts, n) == SubSeq(ts, n + 1, Len(ts))

\* CreateDataProperty: a repeated key keeps its place and takes the new value.
SetProp(o, key, val) ==
    IF \E i \in 1..Len(o) : o[i].key = key
    THEN [i \in 1..Len(o) |-> IF o[i].key = key THEN Member(key, val) ELSE o[i]]
    ELSE Append(o, Member(key, val))

RECURSIVE ParseValue(_), ParseElements(_, _), ParseMembers(_, _)

ParseValue(ts) ==
    IF ts = <<>> THEN ParseFail
    ELSE LET h == ts[1] IN
         CASE h.t = "null" -> ParseOk(JNull, Tail(ts))
           [] h.t = "true" -> ParseOk(JBool(TRUE), Tail(ts))
           [] h.t = "false" -> ParseOk(JBool(FALSE), Tail(ts))
           [] h.t = "num" -> ParseOk(JNum(h.n), Tail(ts))
           [] h.t = "str" -> ParseOk(JStr(h.s), Tail(ts))
           [] h.t = "[" ->
                IF Len(ts) >= 2 /\ ts[2].t = "]"
                THEN ParseOk(JArr(<<>>), Drop(ts, 2))
                ELSE ParseElements(Tail(ts), <<>>)
           [] h.t = "{" ->
                IF Len(ts) >= 2 /\ ts[2].t = "}"
                THEN ParseOk(JObj(<<>>), Drop(ts, 2))
                ELSE ParseMembers(Tail(ts), <<>>)
           [] OTHER -> ParseFail

ParseElements(ts, acc) ==
    LET r == ParseValue(ts) IN
    IF ~r.ok \/ r.rest = <<>> THEN ParseFail
    ELSE IF r.rest[1].t = "," THEN ParseElements(Tail(r.rest), Append(acc, r.v))
    ELSE IF r.rest[1].t = "]" THEN ParseOk(JArr(Append(acc, r.v)), Tail(r.rest))
    ELSE ParseFail

ParseMembers(ts, acc) ==
    IF Len(ts) < 3 \/ ts[1].t # "str" \/ ts[2].t # ":" THEN ParseFail
    ELSE LET r == ParseValue(Drop(ts, 2)) IN
         IF ~r.ok \/ r.rest = <<>> THEN ParseFail
         ELSE IF r.rest[1].t = ","
              THEN ParseMembers(Tail(r.rest), SetProp(acc, ts[1].s, r.v))
         ELSE IF r.rest[1].t = "}"
              THEN ParseOk(JObj(SetProp(acc, ts[1].s, r.v)), Tail(r.rest))
         ELSE ParseFail

\* JSON.parse(text): the value, or a SyntaxError (ok = FALSE).
JSONParse(ts) ==
    LET r == ParseValue(ts) IN
    IF r.ok /\ r.rest = <<>> THEN r ELSE ParseFail

-----------------------------------------------------------------------------
(* JavaScript semantics the validation relies on. *)

\* ToBoolean: what `!x` negates.
Truthy(v) ==
    CASE v.k = "undefined" -> FALSE
      [] v.k = "null" -> FALSE
      [] v.k = "bool" -> v.b
      [] v.k = "num" -> v.n # 0
      [] v.k = "str" -> v.s # ""
      [] OTHER -> TRUE

\* typeof: null and arrays are "object".
TypeOf(v) ==
    CASE v.k = "undefined" -> "undefined"
      [] v.k = "bool" -> "boolean"
      [] v.k = "num" -> "number"
      [] v.k = "str" -> "string"
      [] OTHER -> "object"

\* Property names every object inherits from Object.prototype.
ObjectPrototype ==
    {"constructor", "hasOwnProperty", "isPrototypeOf", "propertyIsEnumerable",
     "toLocaleString", "toString", "valueOf", "__proto__"}

HasOwn(v, key) == v.k = "obj" /\ \E i \in 1..Len(v.o) : v.o[i].key = key

\* v.key for a data property: an array or a primitive has none of the names
\* read here, an object has its own members.
Get(v, key) ==
    IF HasOwn(v, key)
    THEN v.o[CHOOSE i \in 1..Len(v.o) : v.o[i].key = key].val
    ELSE JUndef

\* `key in v`, for v an object or an array (own or inherited).
In(key, v) ==
    \/ HasOwn(v, key)
    \/ key \in ObjectPrototype
    \/ v.k = "arr" /\ key = "length"

StrOk(s) == [ok |-> TRUE, s |-> s]

StrThrow == [ok |-> FALSE, s |-> ""]

RECURSIVE ToStringJS(_), JoinJS(_, _)

\* ToString as a template literal applies it.  An object converts through
\* its toString and valueOf: an own member of either name (never callable,
\* coming from JSON) hides the inherited method, and with toString hidden no
\* primitive is produced: a TypeError.
ToStringJS(v) ==
    CASE v.k = "undefined" -> StrOk("undefined")
      [] v.k = "null" -> StrOk("null")
      [] v.k = "bool" -> StrOk(IF v.b THEN "true" ELSE "false")
      [] v.k = "num" -> StrOk(ToString(v.n))
      [] v.k = "str" -> StrOk(v.s)
      [] v.k = "arr" -> JoinJS(v.a, 1)
      [] OTHER -> IF HasOwn(v, "toString") THEN StrThrow
                  ELSE StrOk("[object Object]")

\* Array.prototype.join(","): null and undefined elements are empty.
JoinJS(a, i) ==
    IF i > Len(a) THEN StrOk("")
    ELSE LET e == IF a[i].k \in {"null", "undefined"} THEN StrOk("")
                  ELSE ToStringJS(a[i])
             r == JoinJS(a, i + 1)
         IN IF ~e.ok \/ ~r.ok THEN StrThrow
            ELSE StrOk(e.s \o (IF i < Len(a) THEN "," ELSE "") \o r.s)

-----------------------------------------------------------------------------
(* Outcomes of a call. *)

NoOutcome == [kind |-> "none", error |-> "", message |-> "", value |-> JUndef]

Return(v) == [NoOutcome EXCEPT !.kind = "return", !.value = v]

Throw(error, message) ==
    [NoOutcome EXCEPT !.kind = "throw", !.error = error, !.message = message]

WebhookSignatureError(message) == Throw("WebhookSignatureError", message)

WebhookParseError(message) == Throw("WebhookParseError", message)

TypeError(message) == Throw("TypeError", message)

-----------------------------------------------------------------------------
(* parseWebhookPayload. *)

isInvoicePaymentWebhook(webhook) == Get(webhook, "type") = JStr("invoicePay")

\* A slip: status is left out of the required names.
requiredDataFields_NoStatus == <<"id", "amount", "currency", "payment">>

requiredDataFields == <<"id", "amount", "currency", "status", "payment">>

\* A slip: the names in the order the summary lists them.
requiredPaymentFields_Swapped == <<"userId", "paymentAmount", "paymentNum", "paid">>

requiredPaymentFields == <<"userId", "paymentNum", "paymentAmount", "paid">>

\* A slip: a member counts as present only when its value is not null.
FirstMissing_Nullish(fields, obj) ==
    IF \E i \in 1..Len(fields) : Get(obj, fields[i]).k \in {"undefined", "null"}
    THEN fields[CHOOSE i \in 1..Len(fields) :
                    /\ Get(obj, fields[i]).k \in {"undefined", "null"}
                    /\ \A j \in 1..(i - 1) :
                          Get(obj, fields[j]).k \notin {"undefined", "null"}]
    ELSE ""

\* A slip: a member counts as present only when its value is truthy.
FirstMissing_Falsy(fields, obj) ==
    IF \E i \in 1..Len(fields) : ~Truthy(Get(obj, fields[i]))
    THEN fields[CHOOSE i \in 1..Len(fields) :
                    /\ ~Truthy(Get(obj, fields[i]))
                    /\ \A j \in 1..(i - 1) : Truthy(Get(obj, fields[j]))]
    ELSE ""

\* The for loop over the required names: the first one not `in` the object,
\* or "" when none is missing.
FirstMissing(fields, obj) ==
    IF \E i \in 1..Len(fields) : ~In(fields[i], obj)
    THEN fields[CHOOSE i \in 1..Len(fields) :
                    /\ ~In(fields[i], obj)
                    /\ \A j \in 1..(i - 1) : In(fields[j], obj)]
    ELSE ""

\* A slip: the payment is searched for its members without the object test;
\* `in` applied to a primitive or to null throws a TypeError.
ValidatePayment_NoObjectCheck(parsed) ==
    LET payment == Get(Get(parsed, "data"), "payment") IN
    IF payment.k \notin {"obj", "arr"}
    THEN TypeError("Cannot use 'in' operator to search for 'userId'")
    ELSE IF FirstMissing(requiredPaymentFields, payment) # ""
    THEN WebhookParseError("Webhook payment data missing required field: "
                           \o FirstMissing(requiredPaymentFields, payment))
    ELSE Return(parsed)

\* The payment object's checks and the final return.
ValidatePayment(parsed) ==
    LET payment == Get(Get(parsed, "data"), "payment") IN
    IF ~Truthy(payment) \/ TypeOf(payment) # "object"
    THEN WebhookParseError("Webhook data missing or invalid payment field")
    ELSE IF FirstMissing(requiredPaymentFields, payment) # ""
    THEN WebhookParseError("Webhook payment data missing required field: "
                           \o FirstMissing(requiredPaymentFields, payment))
    ELSE Return(parsed)

\* The data object's checks.
ValidateData(parsed) ==
    LET data == Get(parsed, "data") IN
    IF ~Truthy(data) \/ TypeOf(data) # "object"
    THEN WebhookParseError("Webhook payload missing or invalid data field")
    ELSE IF FirstMissing(requiredDataFields, data) # ""
    THEN WebhookParseError("Webhook data missing required field: "
                           \o FirstMissing(requiredDataFields, data))
    ELSE ValidatePayment(parsed)

\* A slip: only the type is tested for presence, the timestamp is not.
ValidateEnvelope_TypeOnly(parsed) ==
    IF ~Truthy(parsed) \/ TypeOf(parsed) # "object"
    THEN WebhookParseError("Webhook payload must be an object")
    ELSE IF ~Truthy(Get(parsed, "type"))
    THEN WebhookParseError("Webhook payload missing required fields: type, timestamp")
    ELSE IF ~isInvoicePaymentWebhook(parsed)
    THEN LET t == ToStringJS(Get(parsed, "type")) IN
         IF t.ok THEN WebhookParseError("Unsupported webhook type: " \o t.s)
         ELSE TypeError("Cannot convert object to primitive value")
    ELSE ValidateData(parsed)

\* The envelope's checks; the type's text is built by the template literal.
ValidateEnvelope(parsed) ==
    IF ~Truthy(parsed) \/ TypeOf(parsed) # "object"
    THEN WebhookParseError("Webhook payload must be an object")
    ELSE IF ~Truthy(Get(parsed, "type")) \/ ~Truthy(Get(parsed, "timestamp"))
    THEN WebhookParseError("Webhook payload missing required fields: type, timestamp")
    ELSE IF ~isInvoicePaymentWebhook(parsed)
    THEN LET t == ToStringJS(Get(parsed, "type")) IN
         IF t.ok THEN WebhookParseError("Unsupported webhook type: " \o t.s)
         ELSE TypeError("Cannot convert object to primitive value")
    ELSE ValidateData(parsed)

\* A slip: the body is handed to JSON.parse without the emptiness test.
parseWebhookPayload_NoEmptyCheck(b) ==
    LET r == JSONParse(b) IN
    IF ~r.ok THEN WebhookParseError("Invalid JSON in webhook body")
    ELSE ValidateEnvelope(r.v)

\* A slip: JSON.parse is called outside the try block.
parseWebhookPayload_NoTry(b) ==
    IF b = <<>> THEN WebhookParseError("Webhook body is empty")
    ELSE LET r == JSONParse(b) IN
         IF ~r.ok THEN Throw("SyntaxError", "Unexpected token in JSON")
         ELSE ValidateEnvelope(r.v)

\* The emptiness test, JSON.parse in its try block, then the checks.
parseWebhookPayload(b) ==
    IF b = <<>> THEN WebhookParseError("Webhook body is empty")
    ELSE LET r == JSONParse(b) IN
         IF ~r.ok THEN WebhookParseError("Invalid JSON in webhook body")
         ELSE ValidateEnvelope(r.v)

-----------------------------------------------------------------------------
(* The text as the hash functions read it. *)

Index(seq, x) ==
    IF \E i \in 1..Len(seq) : seq[i] = x
    THEN CHOOSE i \in 1..Len(seq) : seq[i] = x
    ELSE 0

LexKinds ==
    <<"{", "}", "[", "]", ":", ",", "null", "true", "false", "str", "num", "junk">>

\* The strings the request bodies are written with.
Strings ==
    <<"type", "timestamp", "data", "id", "amount", "currency", "status",
      "payment", "userId", "paymentNum", "paymentAmount", "paid",
      "paymentAmountReceived", "comment", "payload", "description",
      "activationsLeft", "totalActivations", "toString", "valueOf",
      "invoicePay", "other", "active", "expired", "TONCOIN",
      "2024-01-01T00:00:00Z", "2024-01-01T00:05:00Z", "x", "Buffer">>

\* One lexeme as one code unit; distinct lexemes have distinct codes.
LexCode(l) == Index(LexKinds, l.t) + 13 * (Index(Strings, l.s) + l.n)

BodyCodes(b) == [i \in 1..Len(b) |-> LexCode(b[i])]

\* The characters of a secret token.
TokenChars == <<"k", "1", "2">>

TokenCodes(t) == [i \in 1..Len(t) |-> Index(TokenChars, t[i])]

HexChars ==
    <<"0", "1", "2", "3", "4", "5", "6", "7", "8", "9", "a", "b", "c", "d", "e", "f">>

UpperHexChars ==
    <<"0", "1", "2", "3", "4", "5", "6", "7", "8", "9", "A", "B", "C", "D", "E", "F">>

\* The same text in upper case.
UpperCase(sig) ==
    [i \in 1..Len(sig) |->
        IF Index(HexChars, sig[i]) = 0 THEN sig[i]
        ELSE UpperHexChars[Index(HexChars, sig[i])]]

RECURSIVE Pow257(_), Absorb(_, _, _)

\* 257^k modulo the prime 32749.
Pow257(k) ==
    IF k = 0 THEN 1
    ELSE IF k % 2 = 0 THEN (Pow257(k \div 2) * Pow257(k \div 2)) % 32749
    ELSE (257 * Pow257(k - 1)) % 32749

\* The compression loop of the digest over codes[lo..hi], started from a
\* zero state: one multiply-by-257-and-add per code unit, modulo the prime
\* 32749 (a 15-bit state standing for the 256-bit one).  The range is split
\* in halves, which computes the same left-to-right fold.
Absorb(codes, lo, hi) ==
    IF lo > hi THEN 0
    ELSE IF lo = hi THEN (codes[lo] + 1) % 32749
    ELSE (Absorb(codes, lo, (lo + hi) \div 2) * Pow257(hi - ((lo + hi) \div 2))
          + Absorb(codes, ((lo + hi) \div 2) + 1, hi)) % 32749

\* The digest of a text: the fold of its code units from the initial state 1.
Digest(codes) == (Pow257(Len(codes)) + Absorb(codes, 1, Len(codes))) % 32749

\* digest('hex'): four lowercase hexadecimal characters.
Hex(d) ==
    <<HexChars[((d \div 4096) % 16) + 1], HexChars[((d \div 256) % 16) + 1],
      HexChars[((d \div 16) % 16) + 1], HexChars[(d % 16) + 1]>>

CryptoOk(d) == [ok |-> TRUE, d |-> d]

CryptoThrow == [ok |-> FALSE, d |-> 0]

\* createHash('sha256').update(token).digest(): the key, or an exception of
\* the crypto library (f names the call that fails, "none" when none does).
createHash(f, t) ==
    IF f = "createHash" THEN CryptoThrow ELSE CryptoOk(Digest(TokenCodes(t)))

\* A slip: the digest is taken over the body without the key.
createHmac_NoKey(f, secret, b) ==
    IF f = "createHmac" THEN CryptoThrow ELSE CryptoOk(Digest(BodyCodes(b)))

\* createHmac('sha256', secret).update(body).digest(): the keyed digest, as
\* HMAC nests it: H(key + opad, H(key + ipad, body)).
createHmac(f, secret, b) ==
    IF f = "createHmac" THEN CryptoThrow
    ELSE CryptoOk(Digest(<<(secret + 92) % 32749,
                           Digest(<<(secret + 54) % 32749>> \o BodyCodes(b))>>))

-----------------------------------------------------------------------------
(* verifyWebhookSignature. *)

\* A slip: the digests are compared without regard to case.
TrySignature_IgnoreCase(b, sig, t, f) ==
    LET secret == createHash(f, t) IN
    IF ~secret.ok THEN Throw("Error", "createHash")
    ELSE LET hmac == createHmac(f, secret.d, b) IN
         IF ~hmac.ok THEN Throw("Error", "createHmac")
         ELSE Return(JBool(UpperCase(Hex(hmac.d)) = UpperCase(sig)))

\* A slip: only the first character of the digests is compared.
TrySignature_FirstCharOnly(b, sig, t, f) ==
    LET secret == createHash(f, t) IN
    IF ~secret.ok THEN Throw("Error", "createHash")
    ELSE LET hmac == createHmac(f, secret.d, b) IN
         IF ~hmac.ok THEN Throw("Error", "createHmac")
         ELSE Return(JBool(SubSeq(Hex(hmac.d), 1, 1) = SubSeq(sig, 1, 1)))

\* The try block: the comparison's result, or the exception thrown in it.
TrySignature(b, sig, t, f) ==
    LET secret == createHash(f, t) IN
    IF ~secret.ok THEN Throw("Error", "createHash")
    ELSE LET hmac == createHmac(f, secret.d, b) IN
         IF ~hmac.ok THEN Throw("Error", "createHmac")
         ELSE Return(JBool(Hex(hmac.d) = sig))

\* A slip: the catch clause throws the error again.
CatchSignature_Rethrow(r) == r

\* The catch clause: whatever was thrown becomes false.
CatchSignature(r) == IF r.kind = "throw" THEN Return(JBool(FALSE)) ELSE r

\* A slip: the guard forgets the body.
verifyWebhookSignature_NoBodyGuard(b, sig, t, f) ==
    IF sig = <<>> \/ t = <<>> THEN Return(JBool(FALSE))
    ELSE CatchSignature(TrySignature(b, sig, t, f))

\* A slip: the guard forgets the token.
verifyWebhookSignature_NoTokenGuard(b, sig, t, f) ==
    IF b = <<>> \/ sig = <<>> THEN Return(JBool(FALSE))
    ELSE CatchSignature(TrySignature(b, sig, t, f))

verifyWebhookSignature(b, sig, t, f) ==
    IF b = <<>> \/ sig = <<>> \/ t = <<>> THEN Return(JBool(FALSE))
    ELSE CatchSignature(TrySignature(b, sig, t, f))

-----------------------------------------------------------------------------
(* verifyAndParseWebhook: the outcome and the functions it entered. *)

\* A slip: the signature error says which of the tests failed.
verifyAndParseWebhook_ExplainsFailure(b, sig, secret, f) ==
    IF b = <<>> \/ sig = <<>> \/ secret = <<>>
    THEN [out |-> WebhookSignatureError("Missing body, signature or secret"),
          calls |-> <<"verifyWebhookSignature">>]
    ELSE IF verifyWebhookSignature(b, sig, secret, f) # Return(JBool(TRUE))
    THEN [out |-> WebhookSignatureError("Signature mismatch"),
          calls |-> <<"verifyWebhookSignature">>]
    ELSE [out |-> parseWebhookPayload(b),
          calls |-> <<"verifyWebhookSignature", "parseWebhookPayload">>]

\* A slip: the payload is parsed before the signature is verified.
verifyAndParseWebhook_ParseFirst(b, sig, secret, f) ==
    IF parseWebhookPayload(b).kind = "throw"
    THEN [out |-> parseWebhookPayload(b), calls |-> <<"parseWebhookPayload">>]
    ELSE IF verifyWebhookSignature(b, sig, secret, f) # Return(JBool(TRUE))
    THEN [out |-> WebhookSignatureError("Invalid webhook signature"),
          calls |-> <<"parseWebhookPayload", "verifyWebhookSignature">>]
    ELSE [out |-> parseWebhookPayload(b),
          calls |-> <<"parseWebhookPayload", "verifyWebhookSignature">>]

\* A slip: a parser error is reported as a signature error.
verifyAndParseWebhook_MasksParseError(b, sig, secret, f) ==
    IF verifyWebhookSignature(b, sig, secret, f) # Return(JBool(TRUE))
       \/ parseWebhookPayload(b).kind = "throw"
    THEN [out |-> WebhookSignatureError("Invalid webhook signature"),
          calls |-> <<"verifyWebhookSignature", "parseWebhookPayload">>]
    ELSE [out |-> parseWebhookPayload(b),
          calls |-> <<"verifyWebhookSignature", "parseWebhookPayload">>]

verifyAndParseWebhook(b, sig, secret, f) ==
    IF verifyWebhookSignature(b, sig, secret, f) # Return(JBool(TRUE))
    THEN [out |-> WebhookSignatureError("Invalid webhook signature"),
          calls |-> <<"verifyWebhookSignature">>]
    ELSE [out |-> parseWebhookPayload(b),
          calls |-> <<"verifyWebhookSignature", "parseWebhookPayload">>]

-----------------------------------------------------------------------------
(* Interpretation helpers. *)

\* A slip: the payment's paid timestamp is taken for the invoice's status.
isInvoicePaid_PaymentPaid(webhook) ==
    Truthy(Get(Get(Get(webhook, "data"), "payment"), "paid"))

isInvoicePaid(webhook) == Get(Get(webhook, "data"), "status") = JStr("paid")

\* A slip: x ?? undefined, which keeps every value but null.
OrUndefined_Nullish(x) == IF x.k = "null" THEN JUndef ELSE x

\* x || undefined
OrUndefined(x) == IF Truthy(x) THEN x ELSE JUndef

\* A slip: the counters and the net amount default to zero when absent.
extractPaymentInfo_DefaultsToZero(webhook) ==
    LET data == Get(webhook, "data")
        payment == Get(data, "payment")
        OrZero(x) == IF Truthy(x) THEN x ELSE JNum(0)
    IN [invoiceId |-> Get(data, "id"),
        amount |-> Get(data, "amount"),
        currency |-> Get(data, "currency"),
        status |-> Get(data, "status"),
        userId |-> Get(payment, "userId"),
        paymentAmount |-> Get(payment, "paymentAmount"),
        paymentAmountReceived |-> OrZero(Get(payment, "paymentAmountReceived")),
        paymentNumber |-> Get(payment, "paymentNum"),
        paidAt |-> Get(payment, "paid"),
        comment |-> OrUndefined(Get(payment, "comment")),
        payload |-> OrUndefined(Get(data, "payload")),
        description |-> OrUndefined(Get(data, "description")),
        activationsLeft |-> OrZero(Get(data, "activationsLeft")),
        totalActivations |-> OrZero(Get(data, "totalActivations"))]

extractPaymentInfo(webhook) ==
    LET data == Get(webhook, "data")
        payment == Get(data, "payment")
    IN [invoiceId |-> Get(data, "id"),
        amount |-> Get(data, "amount"),
        currency |-> Get(data, "currency"),
        status |-> Get(data, "status"),
        userId |-> Get(payment, "userId"),
        paymentAmount |-> Get(payment, "paymentAmount"),
        paymentAmountReceived |-> Get(payment, "paymentAmountReceived"),
        paymentNumber |-> Get(payment, "paymentNum"),
        paidAt |-> Get(payment, "paid"),
        comment |-> OrUndefined(Get(payment, "comment")),
        payload |-> OrUndefined(Get(data, "payload")),
        description |-> OrUndefined(Get(data, "description")),
        activationsLeft |-> Get(data, "activationsLeft"),
        totalActivations |-> Get(data, "totalActivations")]

-----------------------------------------------------------------------------
(* The example host: POST /webhook of examples/webhook-express-server.ts. *)

\* Buffer.prototype.toJSON, which JSON.stringify applies to a Buffer: the
\* bytes as an array of numbers under the type tag 'Buffer'.
BufferToJSON(wire) ==
    JObj(<<Member("type", JStr("Buffer")),
           Member("data", JArr([i \in 1..Len(wire) |-> JNum(LexCode(wire[i]))]))>>)

\* express.raw({ type: 'application/json' }): req.body is a Buffer of the
\* bytes received when the request has a body of that content type;
\* otherwise the middleware leaves {} (body-parser 1) or undefined
\* (body-parser 2), the package not being pinned by the repository.
ExpressRaw(wire) ==
    (IF wire # <<>> THEN {BufferToJSON(wire)} ELSE {}) \cup {JObj(<<>>), JUndef}

Respond(status, error) == [status |-> status, error |-> error]

\* A template literal or a subtraction can be evaluated on the value.
Printable(v) == ToStringJS(v).ok

\* handleInvoicePayment: the summary is logged field by field; the optional
\* texts only when truthy.
handleInvoicePayment(webhook) ==
    LET info == extractPaymentInfo(webhook) IN
    IF /\ \A v \in {info.invoiceId, info.amount, info.currency, info.status,
                    info.paidAt, info.userId, info.paymentAmount,
                    info.totalActivations, info.activationsLeft} : Printable(v)
       /\ \A v \in {info.description, info.payload, info.comment} :
              Truthy(v) => Printable(v)
    THEN Return(JUndef)
    ELSE TypeError("Cannot convert object to primitive value")

\* A slip: a payload error is answered as an internal error.
CatchWebhook_ParseIs500(e) ==
    IF e.error = "WebhookSignatureError" THEN Respond(401, "Invalid signature")
    ELSE Respond(500, "Internal server error")

\* The catch clause of the handler.
CatchWebhook(e) ==
    IF e.error = "WebhookSignatureError" THEN Respond(401, "Invalid signature")
    ELSE IF e.error = "WebhookParseError" THEN Respond(400, "Invalid webhook payload")
    ELSE Respond(500, "Internal server error")

Answer(response, handled) == [responses |-> <<response>>, handled |-> handled]

\* The try block of the handler, from the configuration test on: the
\* responses sent and whether handleInvoicePayment was entered.
TryWebhook(rawBody, sig, apikey, f) ==
    IF apikey = <<>> THEN Answer(Respond(500, "Webhook secret not configured"), FALSE)
    ELSE IF sig = <<>> THEN Answer(Respond(400, "Missing signature header"), FALSE)
    ELSE LET r == verifyAndParseWebhook(rawBody, sig, apikey, f).out IN
         IF r.kind = "throw" THEN Answer(CatchWebhook(r), FALSE)
         ELSE IF ~Printable(Get(r.value, "type")) \/ ~Printable(Get(r.value, "timestamp"))
         THEN Answer(CatchWebhook(TypeError("Cannot convert object to primitive value")),
                     FALSE)
         ELSE IF isInvoicePaid(r.value)
         THEN IF handleInvoicePayment(r.value).kind = "throw"
              THEN Answer(CatchWebhook(handleInvoicePayment(r.value)), TRUE)
              ELSE Answer(Respond(200, ""), TRUE)
         ELSE IF ~Printable(Get(Get(r.value, "data"), "status"))
         THEN Answer(CatchWebhook(TypeError("Cannot convert object to primitive value")),
                     FALSE)
         ELSE Answer(Respond(200, ""), FALSE)

\* The host before a request is handled.
NoHost == [rawBody |-> <<>>, responses |-> <<>>, handled |-> FALSE]

-----------------------------------------------------------------------------
(* The requests a host may hand over: bodies, secrets and signatures. *)

Opt(key, v) == IF v = JUndef THEN <<>> ELSE <<Member(key, v)>>

Pick(members, keys) == SelectSeq(members, LAMBDA m : m.key \in keys)

SetOf(seq) == {seq[i] : i \in 1..Len(seq)}

PaymentMembers ==
    <<Member("userId", JNum(42)), Member("paymentNum", JNum(1)),
      Member("paymentAmount", JNum(5)), Member("paid", JStr("2024-01-01T00:05:00Z"))>>

DataMembers(id, status, payment) ==
    <<Member("id", id), Member("amount", JNum(5)), Member("currency", JStr("TONCOIN")),
      Member("status", status), Member("payment", payment)>>

Envelope(ty, ts, d) == JObj(Opt("type", ty) \o Opt("timestamp", ts) \o Opt("data", d))

SampleData == JObj(DataMembers(JNum(1), JStr("paid"), JObj(PaymentMembers)))

\* The documented sample notification.
SampleEnvelope == Envelope(JStr("invoicePay"), JStr("2024-01-01T00:00:00Z"), SampleData)

SampleBody == Stringify(SampleEnvelope)

\* An object whose own toString member hides Object.prototype.toString.
Unprintable == JObj(<<Member("toString", JNum(1))>>)

Scalars ==
    {JNull, JBool(FALSE), JBool(TRUE), JNum(0), JNum(5), JStr(""), JStr("x")}

TypeOpts ==
    {JUndef, JNull, JStr(""), JNum(0), JBool(FALSE), JStr("invoicePay"),
     JStr("other"), JNum(5), JBool(TRUE), JArr(<<>>), JObj(<<>>), Unprintable,
     JArr(<<Unprintable>>)}

TimestampOpts ==
    {JUndef, JStr(""), JNum(0), JStr("2024-01-01T00:00:00Z"), JNum(5)}

PaymentOpts ==
    Scalars \cup {JArr(<<>>), JArr(<<JNum(1)>>)}
    \cup {JObj(Pick(PaymentMembers, ks)) : ks \in SUBSET SetOf(requiredPaymentFields)}

DataObjects ==
    {JObj(Pick(DataMembers(JNum(1), JStr("paid"), pay), ks)) :
        ks \in SUBSET SetOf(requiredDataFields), pay \in {JNull, JObj(PaymentMembers)}}
    \cup {JObj(DataMembers(JNum(1), JStr("paid"), pay)) : pay \in PaymentOpts}
    \cup {JObj(DataMembers(JNum(id), JStr(st), JObj(PaymentMembers))) :
            id \in 0..MaxId, st \in {"paid", "active", "expired", ""}}
    \cup {JObj(DataMembers(JNull, JNull, JObj(PaymentMembers)))}

DataOpts == {JUndef} \cup Scalars \cup {JArr(<<>>), JArr(<<JNum(1)>>)} \cup DataObjects

DataCore == {JUndef, JNull, JArr(<<>>), SampleData}

\* What an optional text member may hold: absent, empty, non-empty.
OptionalTexts == {JUndef, JStr(""), JStr("x")}

\* What an optional numeric member may hold: absent, zero, positive.
OptionalNumbers == {JUndef, JNum(0), JNum(5)}

\* The sample with the optional members of the invoice and of its payment.
OptionalData(description, payload, comment, counter) ==
    JObj(DataMembers(JNum(1), JStr("paid"),
                     JObj(PaymentMembers \o Opt("paymentAmountReceived", counter)
                          \o Opt("comment", comment)))
         \o Opt("description", description) \o Opt("payload", payload)
         \o Opt("activationsLeft", counter) \o Opt("totalActivations", counter))

OptionalValues ==
    {Envelope(JStr("invoicePay"), JStr("2024-01-01T00:00:00Z"),
              OptionalData(d, p, c, n)) :
        d \in OptionalTexts, p \in OptionalTexts, c \in OptionalTexts,
        n \in OptionalNumbers}

\* The members with the named ones holding v.
Loosen(members, names, v) ==
    [i \in 1..Len(members) |->
        IF members[i].key \in names THEN Member(members[i].key, v) ELSE members[i]]

\* The required members the declared types give a number or a string.
TypedNames ==
    {"id", "amount", "currency", "status", "userId", "paymentNum", "paymentAmount",
     "paid"}

\* The sample with one required member, or all of them, holding null, zero,
\* the empty string or a value of another type than the declared one.
LooseValues ==
    {Envelope(JStr("invoicePay"), JStr("2024-01-01T00:00:00Z"),
              JObj(Loosen(DataMembers(JNum(1), JStr("paid"),
                                      JObj(Loosen(PaymentMembers, names, v))),
                          names, v))) :
        names \in {{n} : n \in TypedNames} \cup {TypedNames},
        v \in {JNull, JNum(0), JStr(""), JBool(FALSE), JArr(<<>>)}}

Values ==
    {Envelope(ty, ts, d) : ty \in TypeOpts, ts \in TimestampOpts, d \in DataCore}
    \cup OptionalValues
    \cup LooseValues
    \cup {Envelope(ty, JStr("2024-01-01T00:00:00Z"), d) :
            ty \in {JStr("invoicePay"), JStr("other")}, d \in DataOpts}
    \cup Scalars
    \cup {JArr(<<>>), JArr(<<JNum(1)>>), JArr(<<SampleEnvelope>>), JObj(<<>>)}

\* The sample with one lexeme replaced: a single-unit mutation of the text.
Mutations(b) ==
    {[b EXCEPT ![i] = l] : i \in 1..Len(b), l \in {Junk, P("}"), NumLex(3)}} \ {b}

Prefixes(b) == {SubSeq(b, 1, n) : n \in 0..(Len(b) - 1)}

\* The sample with its type member written twice: the later one wins.
DuplicateKeyBodies ==
    {<<P("{"), StrLex("type"), P(":"), StrLex(first), P(",")>> \o Tail(SampleBody) :
        first \in {"other", "invoicePay"}}
    \cup {SubSeq(SampleBody, 1, Len(SampleBody) - 1)
          \o <<P(","), StrLex("type"), P(":"), StrLex("other"), P("}")>>}

Malformed ==
    {<<Junk>>, <<P("{"), Junk>>, SampleBody \o <<P("}")>>, SampleBody \o SampleBody,
     <<P("["), NumLex(1), P(","), P("]")>>, <<P("{"), P(","), P("}")>>}
    \cup Prefixes(SampleBody)

Bodies ==
    {Stringify(v) : v \in Values} \cup Mutations(SampleBody) \cup Malformed
    \cup DuplicateKeyBodies

Tokens == {<<>>, <<"k">>, <<"k", "1">>, <<"k", "2">>}

Faults == {"none", "createHash", "createHmac"}

\* What the sender computes: hex(HMAC_SHA256(SHA256(secret), body)).
SenderSignature(b, t) ==
    Hex(Digest(<<(Digest(TokenCodes(t)) + 92) % 32749,
                 Digest(<<(Digest(TokenCodes(t)) + 54) % 32749>> \o BodyCodes(b))>>))

RECURSIVE Padding(_)

Padding(n) == IF n = 0 THEN <<>> ELSE <<"0">> \o Padding(n - 1)

\* Bodies every signature and secret are tried with.
ProbeBodies ==
    {<<>>, SampleBody, <<Junk>>, <<P("{"), Junk>>, <<P("[")>>, <<P("["), P("]")>>,
     Stringify(Envelope(JStr("other"), JStr("x"), JUndef))}

\* Signature header values tried against a body and a secret.
Signatures(b, t) ==
    {<<>>, SenderSignature(b, t), UpperCase(SenderSignature(b, t)),
     SubSeq(SenderSignature(b, t), 1, 3), <<"0", "0", "0", "0">>}
    \cup {SenderSignature(b, t) \o Padding(n) : n \in 1..MaxExtra}
    \cup {SenderSignature(b, u) : u \in Tokens}
    \cup {SenderSignature(b0, t) : b0 \in ProbeBodies}

Request(b, sig, t) == [body |-> b, signature |-> sig, token |-> t]

Requests ==
    {Request(b, SenderSignature(b, <<"k", "1">>), <<"k", "1">>) : b \in Bodies}
    \cup {Request(b, <<"0", "0", "0", "0">>, <<"k", "1">>) : b \in Bodies}
    \cup UNION {{Request(b, sig, t) : sig \in Signatures(b, t)} :
                    b \in ProbeBodies, t \in Tokens}
    \cup {Request(b, SenderSignature(SampleBody, t), t) :
            b \in Mutations(SampleBody), t \in Tokens \ {<<>>}}
    \cup UNION {{Request(b, SenderSignature(Stringify(rb), <<"k", "1">>), <<"k", "1">>) :
                    rb \in ExpressRaw(b)} : b \in {SampleBody, <<Junk>>}}

-----------------------------------------------------------------------------
(* XRocketPayClient (src/src/client.ts): configuration, key and requests. *)

DefaultBaseUrl == "https://pay.xrocket.tg/"

DefaultTimeout == 30000

\* The 'Rocket-Pay-Key' entry of the HTTP client's default headers.
Header(set, v) == [set |-> set, v |-> v]

NoHeader == Header(FALSE, "")

\* The constructor's argument; '' and 0 stand for a member left out, which
\* `||` treats alike.
Config(baseUrl, apiKey, timeout) ==
    [baseUrl |-> baseUrl, apiKey |-> apiKey, timeout |-> timeout]

NoRequest == [verb |-> "", url |-> "", baseURL |-> "", timeout |-> 0, key |-> NoHeader]

\* constructor(config): the defaults are filled in, and the key header is
\* added to the HTTP client only when the key is not empty.
Construct(config) ==
    LET filled ==
            Config(IF config.baseUrl = "" THEN DefaultBaseUrl ELSE config.baseUrl,
                   config.apiKey,
                   IF config.timeout = 0 THEN DefaultTimeout ELSE config.timeout)
    IN [config |-> filled,
        header |-> IF filled.apiKey # "" THEN Header(TRUE, filled.apiKey) ELSE NoHeader,
        sent |-> 0,
        last |-> NoRequest,
        call |-> "constructor",
        result |-> "",
        ctor |-> config,
        lastKey |-> NoHeader]

\* A slip: the key is stored in the configuration only.
setApiKey_ConfigOnly(c, apiKey) ==
    [c EXCEPT !.config.apiKey = apiKey, !.call = "setApiKey", !.result = "",
              !.lastKey = Header(TRUE, apiKey)]

\* setApiKey(apiKey): the configuration and the default header.
setApiKey(c, apiKey) ==
    [c EXCEPT !.config.apiKey = apiKey, !.header = Header(TRUE, apiKey),
              !.call = "setApiKey", !.result = "", !.lastKey = Header(TRUE, apiKey)]

getConfig(c) == Config(c.config.baseUrl, c.config.apiKey, c.config.timeout)

Endpoint(name, verb, url, what) ==
    [name |-> name, verb |-> verb, url |-> url, what |-> what]

\* The methods that send a request; what names the activity in the message
\* of the key test.
Endpoints ==
    {Endpoint("getVersion", "get", "/version", ""),
     Endpoint("createInvoice", "post", "/tg-invoices", "creating invoices"),
     Endpoint("getInvoices", "get", "/tg-invoices", "getting invoices"),
     Endpoint("getInvoice", "get", "/tg-invoices/id", "getting invoice info"),
     Endpoint("deleteInvoice", "delete", "/tg-invoices/id", "deleting invoices"),
     Endpoint("getAppInfo", "get", "/app/info", "getting app info"),
     Endpoint("createTransfer", "post", "/app/transfer", "creating transfers"),
     Endpoint("getWithdrawalFees", "get", "/app/withdrawal/fees",
              "getting withdrawal fees"),
     Endpoint("createWithdrawal", "post", "/app/withdrawal", "creating withdrawals"),
     Endpoint("getWithdrawalStatus", "get", "/app/withdrawal/status/id",
              "getting withdrawal status"),
     Endpoint("createMulticheque", "post", "/multi-cheque", "creating multicheques"),
     Endpoint("getMulticheque", "get", "/multi-cheque/id", "getting multicheque info"),
     Endpoint("getMulticheques", "get", "/multi-cheque", "getting multicheques list"),
     Endpoint("updateMulticheque", "put", "/multi-cheque/id", "updating multicheques"),
     Endpoint("deleteMulticheque", "delete", "/multi-cheque/id",
              "deleting multicheques")}

\* A slip: only the invoice methods test the key.
RequiresApiKey_InvoicesOnly(name) ==
    name \in {"createInvoice", "getInvoices", "getInvoice", "deleteInvoice"}

\* The methods that start with `if (!this.config.apiKey) throw`.
RequiresApiKey(name) == name # "getVersion"

ApiKeyError(what) ==
    "API key is required for " \o what \o ". Use setApiKey() method to set it."

\* One method call: the key test, then one request through the HTTP client
\* with its defaults; arrives tells whether the response does.
CallEndpoint(c, e, arrives) ==
    IF RequiresApiKey(e.name) /\ c.config.apiKey = ""
    THEN [c EXCEPT !.call = e.name, !.result = ApiKeyError(e.what)]
    ELSE [c EXCEPT !.call = e.name,
                   !.sent = @ + 1,
                   !.last = [verb |-> e.verb, url |-> e.url,
                             baseURL |-> c.config.baseUrl,
                             timeout |-> c.config.timeout, key |-> c.header],
                   !.result = IF arrives THEN "response.data" ELSE "request failed"]

\* No client in use.
NoClient == Construct(Config("", "", 0))

-----------------------------------------------------------------------------
(* The state machine: one request, and the calls made on it. *)

NoSummary == [done |-> FALSE, info |-> extractPaymentInfo(JUndef)]

Init ==
    /\ \E r \in Requests :
          /\ body = r.body
          /\ signature = r.signature
          /\ token = r.token
    /\ fault = "none"
    /\ op = "none"
    /\ outcome = NoOutcome
    /\ calls = <<>>
    /\ paid = "unknown"
    /\ summary = NoSummary
    /\ host = NoHost
    /\ client = NoClient
    /\ inv = <<>>

VerifyWebhookSignature ==
    /\ op = "none"
    /\ \E f \in Faults :
          /\ fault' = f
          /\ outcome' = verifyWebhookSignature(body, signature, token, f)
    /\ op' = "verifyWebhookSignature"
    /\ calls' = <<"verifyWebhookSignature">>
    /\ UNCHANGED <<body, signature, token, paid, summary, host, client, inv>>

ParseWebhookPayload ==
    /\ op = "none"
    /\ outcome' = parseWebhookPayload(body)
    /\ op' = "parseWebhookPayload"
    /\ calls' = <<"parseWebhookPayload">>
    /\ UNCHANGED <<body, signature, token, fault, paid, summary, host, client, inv>>

VerifyAndParseWebhook ==
    /\ op = "none"
    /\ \E f \in Faults :
          /\ fault' = f
          /\ outcome' = verifyAndParseWebhook(body, signature, token, f).out
          /\ calls' = verifyAndParseWebhook(body, signature, token, f).calls
    /\ op' = "verifyAndParseWebhook"
    /\ UNCHANGED <<body, signature, token, paid, summary, host, client, inv>>

\* The helpers take a validated envelope: the value a parse returned.
Validated ==
    /\ op \in {"parseWebhookPayload", "verifyAndParseWebhook"}
    /\ outcome.kind = "return"

IsInvoicePaid ==
    /\ Validated
    /\ paid = "unknown"
    /\ paid' = IF isInvoicePaid(outcome.value) THEN "yes" ELSE "no"
    /\ UNCHANGED <<body, signature, token, fault, op, outcome, calls, summary, host,
                   client, inv>>

ExtractPaymentInfo ==
    /\ Validated
    /\ ~summary.done
    /\ summary' = [done |-> TRUE, info |-> extractPaymentInfo(outcome.value)]
    /\ UNCHANGED <<body, signature, token, fault, op, outcome, calls, paid, host,
                   client, inv>>

\* POST /webhook: the body is the text on the wire, the signature the
\* rocket-pay-signature header, the token XROCKET_PAY_API_KEY.  The handler
\* verifies JSON.stringify(req.body).
PostWebhook ==
    /\ op = "none"
    /\ \E f \in Faults, reqBody \in ExpressRaw(body) :
          /\ fault' = f
          /\ host' = [rawBody |-> Stringify(reqBody),
                      responses |->
                          TryWebhook(Stringify(reqBody), signature, token, f).responses,
                      handled |->
                          TryWebhook(Stringify(reqBody), signature, token, f).handled]
    /\ op' = "postWebhook"
    /\ UNCHANGED <<body, signature, token, outcome, calls, paid, summary, client, inv>>

Next ==
    \/ VerifyWebhookSignature
    \/ ParseWebhookPayload
    \/ VerifyAndParseWebhook
    \/ IsInvoicePaid
    \/ ExtractPaymentInfo
    \/ PostWebhook

Spec == Init /\ [][Next]_vars

-----------------------------------------------------------------------------
(* The state machine of a client: construction, then setApiKey and method *)
(* calls in any order.                                                     *)

ApiKeys == {"", "key-1", "key-2"}

Configs ==
    {Config(baseUrl, apiKey, timeout) :
        baseUrl \in {"", "https://example.test/"}, apiKey \in ApiKeys,
        timeout \in {0, 5000}}

ClientInit ==
    /\ \E config \in Configs : client = Construct(config)
    /\ body = <<>>
    /\ signature = <<>>
    /\ token = <<>>
    /\ fault = "none"
    /\ op = "none"
    /\ outcome = NoOutcome
    /\ calls = <<>>
    /\ paid = "unknown"
    /\ summary = NoSummary
    /\ host = NoHost
    /\ inv = <<>>

SetApiKey ==
    /\ \E apiKey \in ApiKeys : client' = setApiKey(client, apiKey)
    /\ UNCHANGED <<body, signature, token, fault, op, outcome, calls, paid, summary,
                   host, inv>>

CallMethod ==
    /\ \E e \in Endpoints, arrives \in BOOLEAN :
          /\ CallEndpoint(client, e, arrives).sent <= MaxRequests
          /\ client' = CallEndpoint(client, e, arrives)
    /\ UNCHANGED <<body, signature, token, fault, op, outcome, calls, paid, summary,
                   host, inv>>

ClientNext ==
    \/ SetApiKey
    \/ CallMethod

ClientSpec == ClientInit /\ [][ClientNext]_vars

-----------------------------------------------------------------------------
(* Concurrent invocations of the three functions, one statement at a time. *)
(* Each invocation has its arguments and the locals its function declares *)
(* (secret, expectedSignature, parsed); the module declares no variable.   *)

\* An invocation about to run.
Invocation(fn, r) ==
    [fn |-> fn, body |-> r.body, signature |-> r.signature, token |-> r.token,
     pc |-> IF fn = "parseWebhookPayload" THEN "empty" ELSE "guard",
     secret |-> 0, expected |-> <<>>, verified |-> FALSE, parsed |-> JUndef,
     outcome |-> NoOutcome]

\* verifyWebhookSignature returns v: to its caller, or to verifyAndParseWebhook.
Verdict(c, v) ==
    IF c.fn = "verifyWebhookSignature"
    THEN [c EXCEPT !.verified = v, !.outcome = Return(JBool(v)), !.pc = "done"]
    ELSE [c EXCEPT !.verified = v, !.pc = "verdict"]

Finish(c, out) == [c EXCEPT !.outcome = out, !.pc = "done"]

\* A slip: secret is a variable of the module, which every invocation
\* writes and reads.
StoreSecret_ModuleLevel(cs, i, d) ==
    [j \in DOMAIN cs |->
        IF j = i THEN [cs[j] EXCEPT !.secret = d, !.pc = "createHmac"]
        ELSE [cs[j] EXCEPT !.secret = d]]

\* const secret = createHash(...): a local of the invocation.
StoreSecret(cs, i, d) == [cs EXCEPT ![i].secret = d, ![i].pc = "createHmac"]

\* The next statement of invocation i.
Advance(cs, i) ==
    LET c == cs[i] IN
    CASE c.pc = "guard" ->
            IF c.body = <<>> \/ c.signature = <<>> \/ c.token = <<>>
            THEN [cs EXCEPT ![i] = Verdict(c, FALSE)]
            ELSE [cs EXCEPT ![i].pc = "createHash"]
      [] c.pc = "createHash" -> StoreSecret(cs, i, createHash("none", c.token).d)
      [] c.pc = "createHmac" ->
            [cs EXCEPT ![i].expected = Hex(createHmac("none", c.secret, c.body).d),
                       ![i].pc = "compare"]
      [] c.pc = "compare" -> [cs EXCEPT ![i] = Verdict(c, c.expected = c.signature)]
      [] c.pc = "verdict" ->
            IF ~c.verified
            THEN [cs EXCEPT ![i] =
                      Finish(c, WebhookSignatureError("Invalid webhook signature"))]
            ELSE [cs EXCEPT ![i].pc = "empty"]
      [] c.pc = "empty" ->
            IF c.body = <<>>
            THEN [cs EXCEPT ![i] = Finish(c, WebhookParseError("Webhook body is empty"))]
            ELSE [cs EXCEPT ![i].pc = "JSON.parse"]
      [] c.pc = "JSON.parse" ->
            IF ~JSONParse(c.body).ok
            THEN [cs EXCEPT ![i] =
                      Finish(c, WebhookParseError("Invalid JSON in webhook body"))]
            ELSE [cs EXCEPT ![i].parsed = JSONParse(c.body).v, ![i].pc = "validate"]
      [] OTHER -> [cs EXCEPT ![i] = Finish(c, ValidateEnvelope(c.parsed))]

Functions == {"verifyWebhookSignature", "parseWebhookPayload", "verifyAndParseWebhook"}

\* The deliveries handled at the same time: the sample under one key and a
\* text that is not JSON under another.
ConcurrentRequests ==
    {Request(SampleBody, SenderSignature(SampleBody, <<"k", "1">>), <<"k", "1">>),
     Request(<<P("{"), Junk>>, SenderSignature(<<P("{"), Junk>>, <<"k", "2">>),
             <<"k", "2">>)}

ConcurrentInit ==
    /\ inv \in [1..MaxCalls -> {Invocation(fn, r) : fn \in Functions,
                                                    r \in ConcurrentRequests}]
    /\ body = <<>>
    /\ signature = <<>>
    /\ token = <<>>
    /\ fault = "none"
    /\ op = "none"
    /\ outcome = NoOutcome
    /\ calls = <<>>
    /\ paid = "unknown"
    /\ summary = NoSummary
    /\ host = NoHost
    /\ client = NoClient

\* Any invocation that has not returned runs its next statement.
RunStatement ==
    /\ \E i \in DOMAIN inv :
          /\ inv[i].pc # "done"
          /\ inv' = Advance(inv, i)
    /\ UNCHANGED <<body, signature, token, fault, op, outcome, calls, paid, summary,
                   host, client>>

ConcurrentNext == RunStatement

ConcurrentSpec == ConcurrentInit /\ [][ConcurrentNext]_vars

-----------------------------------------------------------------------------
(* Claims C1 to C7: the signature verifier and the composed entry point. *)

Verified == verifyWebhookSignature(body, signature, token, fault) = Return(JBool(TRUE))

AnyEmpty == body = <<>> \/ signature = <<>> \/ token = <<>>

\* C1: verifyAndParseWebhook called with a signature that does not verify
\* raises WebhookSignatureError and never enters the parser, whatever the
\* body: no WebhookParseError is raised, also for bodies that fail parsing.
C1_BadSignatureNeverParses ==
    (op = "verifyAndParseWebhook" /\ ~Verified) =>
        /\ outcome = WebhookSignatureError("Invalid webhook signature")
        /\ calls = <<"verifyWebhookSignature">>

\* A rejected signature on a body the parser would reject as well.
C1_Witness ==
    /\ op = "verifyAndParseWebhook"
    /\ ~Verified
    /\ body # <<>>
    /\ parseWebhookPayload(body).error = "WebhookParseError"
    /\ outcome.error = "WebhookSignatureError"

\* C2: verifyWebhookSignature returns true exactly when body, signature and
\* token are all non-empty, the hashing completes, and the signature equals
\* the lowercase hexadecimal HMAC of the body under SHA-256(token); the same
\* digest in upper case or with extra characters yields false.
C2_TrueOnlyOnExactDigest ==
    op = "verifyWebhookSignature" =>
        /\ outcome \in {Return(JBool(TRUE)), Return(JBool(FALSE))}
        /\ (outcome = Return(JBool(TRUE))) <=>
              /\ ~AnyEmpty
              /\ fault = "none"
              /\ signature = SenderSignature(body, token)

\* The digest in upper case, differing from the lowercase one, is rejected.
C2_Witness ==
    /\ op = "verifyWebhookSignature"
    /\ ~AnyEmpty
    /\ fault = "none"
    /\ signature = UpperCase(SenderSignature(body, token))
    /\ signature # SenderSignature(body, token)
    /\ outcome = Return(JBool(FALSE))

\* C3 as stated: for all bodies B and all secrets S,
\* verifyWebhookSignature(B, hex(HMAC_SHA256(SHA256(S), B)), S) is true.
C3_Original ==
    (/\ op = "verifyWebhookSignature"
     /\ fault = "none"
     /\ signature = SenderSignature(body, token)) =>
        outcome = Return(JBool(TRUE))

\* C3 amended: for all non-empty bodies B and all non-empty secrets S,
\* verifyWebhookSignature(B, hex(HMAC_SHA256(SHA256(S), B)), S) is true.
C3_ValidSignatureVerifies ==
    (/\ op = "verifyWebhookSignature"
     /\ fault = "none"
     /\ body # <<>>
     /\ token # <<>>
     /\ signature = SenderSignature(body, token)) =>
        outcome = Return(JBool(TRUE))

\* The sender's signature accepted for a body that is not the sample and a
\* secret that is not the default one.
C3_Witness ==
    /\ op = "verifyWebhookSignature"
    /\ fault = "none"
    /\ body \notin {<<>>, SampleBody}
    /\ token = <<"k", "2">>
    /\ signature = SenderSignature(body, token)
    /\ outcome = Return(JBool(TRUE))

\* Two texts of the same length that differ in exactly one unit.
OneUnitApart(b1, b2) ==
    /\ Len(b1) = Len(b2)
    /\ Cardinality({i \in 1..Len(b1) : b1[i] # b2[i]}) = 1

\* C4: the signature of a body B under S is rejected for every body obtained
\* from B by changing a single unit of its text.
C4_MutatedBodyRejected ==
    op = "verifyWebhookSignature" =>
        \A b0 \in ProbeBodies :
            (OneUnitApart(b0, body) /\ signature = SenderSignature(b0, token)) =>
                outcome = Return(JBool(FALSE))

\* The sample's signature presented with a mutated sample, hashing intact.
C4_Witness ==
    /\ op = "verifyWebhookSignature"
    /\ fault = "none"
    /\ token # <<>>
    /\ OneUnitApart(SampleBody, body)
    /\ signature = SenderSignature(SampleBody, token)
    /\ outcome = Return(JBool(FALSE))

\* C5: with an empty body, signature or token the verifier returns false
\* and does not throw, whatever the other two arguments are.
C5_EmptyArgumentIsFalse ==
    (op = "verifyWebhookSignature" /\ AnyEmpty) => outcome = Return(JBool(FALSE))

\* An empty token with the signature the sender would compute for it.
C5_Witness ==
    /\ op = "verifyWebhookSignature"
    /\ token = <<>>
    /\ body # <<>>
    /\ signature = SenderSignature(body, token)
    /\ outcome = Return(JBool(FALSE))

\* C6: an error raised while deriving the key or computing the HMAC becomes
\* the result false; the verifier never throws.
C6_HashingErrorIsFalse ==
    op = "verifyWebhookSignature" =>
        /\ outcome.kind = "return"
        /\ fault # "none" => outcome = Return(JBool(FALSE))

\* The HMAC computation fails on a request whose signature is the right one.
C6_Witness ==
    /\ op = "verifyWebhookSignature"
    /\ fault = "createHmac"
    /\ ~AnyEmpty
    /\ signature = SenderSignature(body, token)
    /\ outcome = Return(JBool(FALSE))

\* C7: when the signature verifies, verifyAndParseWebhook has exactly the
\* outcome of parseWebhookPayload on the same body: the same envelope, or
\* the same error with the same reason.
C7_VerifiedEqualsParse ==
    (op = "verifyAndParseWebhook" /\ Verified) =>
        /\ outcome = parseWebhookPayload(body)
        /\ calls = <<"verifyWebhookSignature", "parseWebhookPayload">>

\* A verified request whose body the parser rejects.
C7_Witness ==
    /\ op = "verifyAndParseWebhook"
    /\ Verified
    /\ outcome.error = "WebhookParseError"
    /\ outcome.message = "Webhook data missing required field: amount"

-----------------------------------------------------------------------------
(* Claims C8 to C10: the payload parser. *)

\* The value JSON.parse yields for the body (undefined when it throws).
Parsed == JSONParse(body).v

\* What each of the nine checks rejects, taken by itself.
CheckFails(k, b) ==
    LET v == JSONParse(b).v
        data == Get(v, "data")
        payment == Get(data, "payment")
    IN CASE k = 1 -> b = <<>>
         [] k = 2 -> ~JSONParse(b).ok
         [] k = 3 -> ~Truthy(v) \/ TypeOf(v) # "object"
         [] k = 4 -> ~Truthy(Get(v, "type")) \/ ~Truthy(Get(v, "timestamp"))
         [] k = 5 -> Get(v, "type") # JStr("invoicePay")
         [] k = 6 -> ~Truthy(data) \/ TypeOf(data) # "object"
         [] k = 7 -> \E i \in 1..Len(requiredDataFields) :
                        ~HasOwn(data, requiredDataFields[i])
         [] k = 8 -> ~Truthy(payment) \/ TypeOf(payment) # "object"
         [] OTHER -> \E i \in 1..Len(requiredPaymentFields) :
                        ~HasOwn(payment, requiredPaymentFields[i])

\* The earliest check the body violates, 0 when it violates none.
FirstViolated(b) ==
    IF \E k \in 1..9 : CheckFails(k, b)
    THEN CHOOSE k \in 1..9 : CheckFails(k, b) /\ \A j \in 1..(k - 1) : ~CheckFails(j, b)
    ELSE 0

\* The texts a type can be reported with.
TypeTexts ==
    {ToStringJS(ty).s : ty \in {x \in TypeOpts : ToStringJS(x).ok}}
    \cup SetOf(Strings) \cup {"3"}

\* The reasons each check can raise.
Reasons(k) ==
    CASE k = 1 -> {"Webhook body is empty"}
      [] k = 2 -> {"Invalid JSON in webhook body"}
      [] k = 3 -> {"Webhook payload must be an object"}
      [] k = 4 -> {"Webhook payload missing required fields: type, timestamp"}
      [] k = 5 -> {"Unsupported webhook type: " \o t : t \in TypeTexts}
      [] k = 6 -> {"Webhook payload missing or invalid data field"}
      [] k = 7 -> {"Webhook data missing required field: " \o f :
                      f \in SetOf(requiredDataFields)}
      [] k = 8 -> {"Webhook data missing or invalid payment field"}
      [] OTHER -> {"Webhook payment data missing required field: " \o f :
                      f \in SetOf(requiredPaymentFields)}

\* C8: the checks run in the order empty body, JSON syntax, not-an-object,
\* missing type/timestamp, unsupported type, missing/invalid data, missing
\* data field, missing/invalid payment, missing payment field; a body that
\* violates some of them is rejected with a WebhookParseError whose reason
\* is the one of the earliest check it violates, and the reasons of
\* different checks are distinct.
C8_EarliestCheckReason ==
    /\ \A j, k \in 1..9 : j # k => Reasons(j) \cap Reasons(k) = {}
    /\ (op = "parseWebhookPayload" /\ FirstViolated(body) # 0) =>
          /\ outcome.kind = "throw"
          /\ outcome.error = "WebhookParseError"
          /\ outcome.message \in Reasons(FirstViolated(body))

\* The shape a validated envelope has.
ValidShape(v) ==
    LET data == Get(v, "data")
        payment == Get(data, "payment")
    IN /\ v.k = "obj"
       /\ Get(v, "type") = JStr("invoicePay")
       /\ Get(v, "timestamp") \notin {JUndef, JNull, JStr("")}
       /\ data.k = "obj"
       /\ \A i \in 1..Len(requiredDataFields) : HasOwn(data, requiredDataFields[i])
       /\ payment.k = "obj"
       /\ \A i \in 1..Len(requiredPaymentFields) :
              HasOwn(payment, requiredPaymentFields[i])

\* C9: validation is all-or-nothing: a value returned by parseWebhookPayload
\* is an object of type 'invoicePay' with a non-empty timestamp, a data
\* object holding id, amount, currency, status and payment, and a payment
\* object holding userId, paymentNum, paymentAmount and paid; in every other
\* case a WebhookParseError is raised and nothing is returned.
C9_AllOrNothing ==
    op = "parseWebhookPayload" =>
        \/ outcome.kind = "return" /\ ValidShape(outcome.value)
        \/ /\ outcome.kind = "throw"
           /\ outcome.error = "WebhookParseError"
           /\ outcome.value = JUndef

\* A body the claim's words call well formed.
WellFormed(b) ==
    LET v == JSONParse(b).v
        data == Get(v, "data")
        payment == Get(data, "payment")
    IN /\ JSONParse(b).ok
       /\ v.k = "obj"
       /\ Get(v, "type") = JStr("invoicePay")
       /\ Truthy(Get(v, "timestamp"))
       /\ data.k = "obj"
       /\ \A i \in 1..Len(requiredDataFields) : HasOwn(data, requiredDataFields[i])
       /\ payment.k = "obj"
       /\ \A i \in 1..Len(requiredPaymentFields) :
              HasOwn(payment, requiredPaymentFields[i])

\* C10: every body that is valid JSON for an object with type 'invoicePay',
\* a non-empty timestamp, a data object holding the five required members
\* and a payment object holding the four required members is accepted, and
\* the value returned is the parsed value itself; the documented sample
\* parses to the sample envelope and its summary's invoiceId is data.id.
C10_WellFormedAccepted ==
    (op = "parseWebhookPayload" /\ WellFormed(body)) =>
        /\ outcome = Return(Parsed)
        /\ body = SampleBody => outcome.value = SampleEnvelope
        /\ summary.done =>
              /\ summary.info.invoiceId = Get(Get(Parsed, "data"), "id")
              /\ body = SampleBody => summary.info.invoiceId = JNum(1)

\* The sample parsed and summarised.
C10_Witness ==
    /\ op = "parseWebhookPayload"
    /\ body = SampleBody
    /\ outcome.kind = "return"
    /\ summary.done
    /\ summary.info.invoiceId = JNum(1)
    /\ paid = "yes"

-----------------------------------------------------------------------------
(* Claims C11 to C18: the parser's rejections, one check at a time. *)

\* C11: parseWebhookPayload called with the empty body raises
\* WebhookParseError 'Webhook body is empty'; the empty text is not handed
\* to JSON.parse (which rejects it as a syntax error).
C11_EmptyBodyRejectedFirst ==
    /\ ~JSONParse(<<>>).ok
    /\ (op = "parseWebhookPayload" /\ body = <<>>) =>
          outcome = WebhookParseError("Webhook body is empty")

\* The parser called with the empty body.
C11_Witness ==
    /\ op = "parseWebhookPayload"
    /\ body = <<>>
    /\ outcome.message = "Webhook body is empty"

\* Texts that are not JSON: a bare word, an object opened on a bare word, a
\* trailing comma, an unclosed sample, two values in a row.
NotJson ==
    {<<Junk>>, <<P("{"), Junk>>, <<P("["), NumLex(1), P(","), P("]")>>,
     SubSeq(SampleBody, 1, Len(SampleBody) - 1), SampleBody \o SampleBody}

\* C12: parseWebhookPayload called with a non-empty body that is not valid
\* JSON raises WebhookParseError 'Invalid JSON in webhook body'; the
\* SyntaxError of JSON.parse is never what the caller sees.
C12_InvalidJsonRejected ==
    op = "parseWebhookPayload" =>
        /\ (body # <<>> /\ (~JSONParse(body).ok \/ body \in NotJson)) =>
              outcome = WebhookParseError("Invalid JSON in webhook body")
        /\ outcome.error # "SyntaxError"

\* The parser called with an object opened on a bare word.
C12_Witness ==
    /\ op = "parseWebhookPayload"
    /\ body = <<P("{"), Junk>>
    /\ outcome.message = "Invalid JSON in webhook body"

\* C13: parseWebhookPayload rejects with 'Webhook payload must be an object'
\* every body whose JSON value is not an object: an array, a number, a
\* string, a boolean or null.
C13_NonObjectRejected ==
    (/\ op = "parseWebhookPayload"
     /\ JSONParse(body).ok
     /\ Parsed.k \in {"arr", "num", "str", "bool", "null"}) =>
        outcome = WebhookParseError("Webhook payload must be an object")

\* C14: parseWebhookPayload rejects with 'Webhook payload missing required
\* fields: type, timestamp' every JSON object whose type or timestamp is
\* absent, null, '', 0 or false, whatever the other member and data hold;
\* an object of type 'invoicePay' without timestamp gets this reason.
C14_FalsyEnvelopeFieldRejected ==
    (/\ op = "parseWebhookPayload"
     /\ JSONParse(body).ok
     /\ Parsed.k = "obj"
     /\ \/ Get(Parsed, "type") \in {JUndef, JNull, JStr(""), JNum(0), JBool(FALSE)}
        \/ Get(Parsed, "timestamp") \in {JUndef, JNull, JStr(""), JNum(0), JBool(FALSE)}) =>
        outcome = WebhookParseError("Webhook payload missing required fields: type, timestamp")

\* The sample without its timestamp.
C14_Witness ==
    /\ op = "parseWebhookPayload"
    /\ Parsed = Envelope(JStr("invoicePay"), JUndef, SampleData)
    /\ outcome.message = "Webhook payload missing required fields: type, timestamp"

\* C15: parseWebhookPayload rejects with an 'Unsupported webhook type'
\* reason, distinct from the reasons of the other checks, every JSON object
\* with a truthy timestamp and a truthy type other than 'invoicePay',
\* whether data is present or well formed or not.
C15_UnsupportedTypeRejected ==
    /\ \A k \in (1..9) \ {5} : Reasons(5) \cap Reasons(k) = {}
    /\ (/\ op = "parseWebhookPayload"
        /\ JSONParse(body).ok
        /\ Parsed.k = "obj"
        /\ Truthy(Get(Parsed, "timestamp"))
        /\ Truthy(Get(Parsed, "type"))
        /\ Get(Parsed, "type") # JStr("invoicePay")) =>
          /\ outcome.error = "WebhookParseError"
          /\ outcome.message \in Reasons(5)

\* The first name of the list that is not a member of the object.
FirstAbsent(names, obj) ==
    names[CHOOSE i \in 1..Len(names) :
              /\ ~HasOwn(obj, names[i])
              /\ \A j \in 1..(i - 1) : HasOwn(obj, names[j])]

\* The body is JSON for an object of type 'invoicePay' with a truthy
\* timestamp: it passes the envelope checks.
PassesEnvelope ==
    /\ JSONParse(body).ok
    /\ Parsed.k = "obj"
    /\ Get(Parsed, "type") = JStr("invoicePay")
    /\ Truthy(Get(Parsed, "timestamp"))

ParsedData == Get(Parsed, "data")

ParsedPayment == Get(ParsedData, "payment")

\* C16: for an envelope that passes the type and timestamp checks and whose
\* data is an object, parseWebhookPayload raises WebhookParseError when any
\* of id, amount, currency, status, payment is absent from data, and the
\* reason names the first absent one in that order.
C16_MissingDataFieldNamed ==
    (/\ op = "parseWebhookPayload"
     /\ PassesEnvelope
     /\ ParsedData.k \in {"obj", "arr"}
     /\ \E f \in {"id", "amount", "currency", "status", "payment"} :
            ~HasOwn(ParsedData, f)) =>
        outcome = WebhookParseError(
            "Webhook data missing required field: "
            \o FirstAbsent(<<"id", "amount", "currency", "status", "payment">>,
                           ParsedData))

\* Data without status and payment only: status is the one named.
C16_Witness ==
    /\ op = "parseWebhookPayload"
    /\ PassesEnvelope
    /\ ParsedData.k = "obj"
    /\ \A f \in {"id", "amount", "currency"} : HasOwn(ParsedData, f)
    /\ ~HasOwn(ParsedData, "status")
    /\ ~HasOwn(ParsedData, "payment")
    /\ outcome.message = "Webhook data missing required field: status"

\* C17: for an envelope whose data holds all five required members,
\* parseWebhookPayload rejects with 'Webhook data missing or invalid payment
\* field' whenever data.payment is null, a number, a string or a boolean;
\* the members of such a value are not looked for.
C17_NonObjectPaymentRejected ==
    (/\ op = "parseWebhookPayload"
     /\ PassesEnvelope
     /\ ParsedData.k = "obj"
     /\ \A f \in {"id", "amount", "currency", "status", "payment"} :
            HasOwn(ParsedData, f)
     /\ ParsedPayment.k \in {"null", "num", "str", "bool"}) =>
        outcome = WebhookParseError("Webhook data missing or invalid payment field")

\* A payment that is a non-zero number.
C17_Witness ==
    /\ op = "parseWebhookPayload"
    /\ PassesEnvelope
    /\ ParsedPayment = JNum(5)
    /\ outcome.message = "Webhook data missing or invalid payment field"

\* C18: for an otherwise valid envelope, a payment object that lacks any of
\* userId, paymentNum, paymentAmount, paid makes parseWebhookPayload raise
\* WebhookParseError naming the first absent one in that order.
C18_MissingPaymentFieldNamed ==
    (/\ op = "parseWebhookPayload"
     /\ PassesEnvelope
     /\ ParsedData.k = "obj"
     /\ \A f \in {"id", "amount", "currency", "status", "payment"} :
            HasOwn(ParsedData, f)
     /\ ParsedPayment.k = "obj"
     /\ \E f \in {"userId", "paymentNum", "paymentAmount", "paid"} :
            ~HasOwn(ParsedPayment, f)) =>
        outcome = WebhookParseError(
            "Webhook payment data missing required field: "
            \o FirstAbsent(<<"userId", "paymentNum", "paymentAmount", "paid">>,
                           ParsedPayment))

\* A payment without paymentNum and paymentAmount: paymentNum is the one
\* named.
C18_Witness ==
    /\ op = "parseWebhookPayload"
    /\ PassesEnvelope
    /\ ParsedPayment.k = "obj"
    /\ HasOwn(ParsedPayment, "userId")
    /\ ~HasOwn(ParsedPayment, "paymentNum")
    /\ ~HasOwn(ParsedPayment, "paymentAmount")
    /\ outcome.message = "Webhook payment data missing required field: paymentNum"

-----------------------------------------------------------------------------
(* Claims C19 and C20: the interpretation helpers. *)

\* The sample with another status.
SampleWithStatus(st) ==
    Stringify(Envelope(JStr("invoicePay"), JStr("2024-01-01T00:00:00Z"),
                       JObj(DataMembers(JNum(1), JStr(st), JObj(PaymentMembers)))))

\* C19: for every validated envelope isInvoicePaid is true exactly when
\* data.status is the string 'paid'; the sample with status 'active',
\* 'expired' or '' is still accepted by the parser, and isInvoicePaid is
\* false for it.
C19_PaidIffStatusPaid ==
    /\ (Validated /\ paid # "unknown") =>
          (paid = "yes" <=> Get(ParsedData, "status") = JStr("paid"))
    /\ (/\ op = "parseWebhookPayload"
        /\ body \in {SampleWithStatus(st) : st \in {"active", "expired", ""}}) =>
          /\ outcome = Return(Parsed)
          /\ paid \in {"unknown", "no"}

\* The sample with status 'active', parsed and found not paid.
C19_Witness ==
    /\ op = "parseWebhookPayload"
    /\ body = SampleWithStatus("active")
    /\ outcome.kind = "return"
    /\ paid = "no"

\* C20 as stated: every projected optional field of the summary is absent
\* when absent in the source and is the provided value when provided, a
\* provided zero or empty string included.
C20_Original ==
    summary.done =>
        /\ summary.info.comment = Get(ParsedPayment, "comment")
        /\ summary.info.payload = Get(ParsedData, "payload")
        /\ summary.info.description = Get(ParsedData, "description")
        /\ summary.info.activationsLeft = Get(ParsedData, "activationsLeft")
        /\ summary.info.totalActivations = Get(ParsedData, "totalActivations")
        /\ summary.info.paymentAmountReceived = Get(ParsedPayment, "paymentAmountReceived")

\* What `x || undefined` leaves of a provided text, by the claim's cases.
SurfacedText(src, key) ==
    IF ~HasOwn(src, key) \/ Get(src, key) \in {JStr(""), JNum(0), JNull, JBool(FALSE)}
    THEN JUndef
    ELSE Get(src, key)

\* C20 amended: a field absent in the source is absent in the summary, never
\* zero or the empty string; the activation counters and the net amount
\* received are copied as provided, a provided zero included; comment,
\* payload and description are absent when not provided or provided empty,
\* and the provided value otherwise.
C20_AbsentStaysAbsent ==
    summary.done =>
        /\ summary.info.comment = SurfacedText(ParsedPayment, "comment")
        /\ summary.info.payload = SurfacedText(ParsedData, "payload")
        /\ summary.info.description = SurfacedText(ParsedData, "description")
        /\ summary.info.activationsLeft = Get(ParsedData, "activationsLeft")
        /\ summary.info.totalActivations = Get(ParsedData, "totalActivations")
        /\ summary.info.paymentAmountReceived = Get(ParsedPayment, "paymentAmountReceived")
        /\ ~HasOwn(ParsedData, "activationsLeft") => summary.info.activationsLeft = JUndef
        /\ ~HasOwn(ParsedData, "totalActivations") => summary.info.totalActivations = JUndef
        /\ ~HasOwn(ParsedPayment, "paymentAmountReceived") =>
              summary.info.paymentAmountReceived = JUndef

\* The summary of an envelope with zero counters, an empty comment, a
\* non-empty payload and no description.
C20_Witness ==
    /\ summary.done
    /\ Get(ParsedData, "activationsLeft") = JNum(0)
    /\ Get(ParsedPayment, "comment") = JStr("")
    /\ Get(ParsedData, "payload") = JStr("x")
    /\ ~HasOwn(ParsedData, "description")
    /\ summary.info.activationsLeft = JNum(0)
    /\ summary.info.comment = JUndef
    /\ summary.info.payload = JStr("x")
    /\ summary.info.description = JUndef

-----------------------------------------------------------------------------
(* Claims C21, C22 and C28: the error kinds. *)

\* C21: the error kinds are closed: parseWebhookPayload returns an envelope
\* or raises WebhookParseError and nothing else; verifyWebhookSignature
\* raises nothing; WebhookSignatureError is raised only by
\* verifyAndParseWebhook and only when the verification returned false;
\* verifyAndParseWebhook raises nothing but WebhookSignatureError or
\* WebhookParseError.
C21_ErrorKindsClosed ==
    /\ op = "parseWebhookPayload" =>
          \/ outcome.kind = "return" /\ outcome.value.k = "obj"
          \/ outcome.kind = "throw" /\ outcome.error = "WebhookParseError"
    /\ op = "verifyWebhookSignature" => outcome.kind = "return"
    /\ outcome.error = "WebhookSignatureError" =>
          op = "verifyAndParseWebhook" /\ ~Verified
    /\ op = "verifyAndParseWebhook" =>
          \/ outcome.kind = "return"
          \/ /\ outcome.kind = "throw"
             /\ outcome.error \in {"WebhookSignatureError", "WebhookParseError"}

\* Calls that fail verification for different causes: an empty body, an
\* empty signature, an empty secret, a digest of another body, a digest
\* under another secret, on a body the parser accepts and on one it rejects.
FailingCalls ==
    {Request(<<>>, SenderSignature(<<>>, <<"k">>), <<"k">>),
     Request(SampleBody, <<>>, <<"k">>),
     Request(SampleBody, SenderSignature(SampleBody, <<>>), <<>>),
     Request(SampleBody, SenderSignature(<<Junk>>, <<"k">>), <<"k">>),
     Request(<<Junk>>, SenderSignature(<<Junk>>, <<"k", "1">>), <<"k", "2">>)}

\* C22: the WebhookSignatureError of verifyAndParseWebhook carries nothing
\* but 'Invalid webhook signature': the error of a failing call is the same
\* as the error of every other failing call, whatever the bodies, the
\* signatures, the secrets and the cause of the failure.
C22_SignatureErrorIsTerse ==
    (op = "verifyAndParseWebhook" /\ outcome.error = "WebhookSignatureError") =>
        /\ outcome.message = "Invalid webhook signature"
        /\ outcome.value = JUndef
        /\ \A r \in FailingCalls :
              verifyAndParseWebhook(r.body, r.signature, r.token, "none").out = outcome

\* A call that fails on an empty signature, on a body that is not JSON.
C22_Witness ==
    /\ op = "verifyAndParseWebhook"
    /\ signature = <<>>
    /\ body = <<Junk>>
    /\ token # <<>>
    /\ outcome.error = "WebhookSignatureError"

\* C28: verifyAndParseWebhook called with an empty body, an empty signature
\* or an empty secret raises WebhookSignatureError; the reason 'Webhook body
\* is empty' is raised by parseWebhookPayload called directly and by nothing
\* else.
C28_EmptyBodyIsSignatureError ==
    /\ (op = "verifyAndParseWebhook" /\ AnyEmpty) =>
          outcome = WebhookSignatureError("Invalid webhook signature")
    /\ outcome.message = "Webhook body is empty" => op = "parseWebhookPayload"

\* The composed entry point called with the empty body and the signature
\* the sender computes for it.
C28_Witness ==
    /\ op = "verifyAndParseWebhook"
    /\ body = <<>>
    /\ token # <<>>
    /\ signature = SenderSignature(<<>>, token)
    /\ fault = "none"
    /\ outcome.error = "WebhookSignatureError"

-----------------------------------------------------------------------------
(* Claims C29 and C30: presence checks and the summary's copies. *)

\* C29: the required-member checks test presence, never the value: an
\* envelope that passes the type and timestamp checks is accepted whenever
\* data is an object with the members id, amount, currency, status, payment
\* and data.payment is an object with the members userId, paymentNum,
\* paymentAmount, paid, also when any of the eight holds null, zero, the
\* empty string or a value of the wrong type.
C29_PresenceNotValue ==
    op = "parseWebhookPayload" =>
        /\ (/\ PassesEnvelope
            /\ ParsedData.k = "obj"
            /\ \A f \in {"id", "amount", "currency", "status", "payment"} :
                  HasOwn(ParsedData, f)
            /\ ParsedPayment.k = "obj"
            /\ \A f \in {"userId", "paymentNum", "paymentAmount", "paid"} :
                  HasOwn(ParsedPayment, f)) =>
              outcome = Return(Parsed)
        /\ body \in {Stringify(v) : v \in LooseValues} => outcome.kind = "return"

\* An envelope whose eight typed members are all null is accepted.
C29_Witness ==
    /\ op = "parseWebhookPayload"
    /\ \A f \in {"id", "amount", "currency", "status"} :
          HasOwn(ParsedData, f) /\ Get(ParsedData, f) = JNull
    /\ \A f \in {"userId", "paymentNum", "paymentAmount", "paid"} :
          HasOwn(ParsedPayment, f) /\ Get(ParsedPayment, f) = JNull
    /\ outcome.kind = "return"

\* What the summary holds for an optional text of the declared type (a
\* string, or absent): the string when it is not empty, absent otherwise.
NonEmptyOrAbsent(src, key) ==
    IF Get(src, key).k = "str" /\ Get(src, key).s # "" THEN Get(src, key) ELSE JUndef

-----------------------------------------------------------------------------
(* Claims C26 and C27: the example host. *)

\* C26: the body the handler passes to verifyAndParseWebhook is the exact
\* text received on the wire, so that a request carrying the sender's
\* signature of its body is not answered as a signature failure.
C26_RawBodyIsWireText ==
    (/\ op = "postWebhook"
     /\ body # <<>>
     /\ token # <<>>
     /\ fault = "none"
     /\ signature = SenderSignature(body, token)) =>
        /\ host.rawBody = body
        /\ host.responses[1].status # 401

\* What verifyAndParseWebhook does with the arguments the handler passes.
HostOutcome == verifyAndParseWebhook(host.rawBody, signature, token, fault).out

-----------------------------------------------------------------------------
(* Claims C24 and C25: the client's key. *)

\* The messages of the key test.
ApiKeyErrors ==
    {"API key is required for " \o e.what \o ". Use setApiKey() method to set it." :
        e \in Endpoints}

\* C24: after any sequence of construction and setApiKey calls, a method
\* other than getVersion called while the key is empty rejects with an 'API
\* key is required ...' error and issues no request, and called while the
\* key is not empty issues exactly one request; getVersion issues its
\* request whatever the key.
C24_KeyGuardsRequests ==
    [][\A e \in Endpoints :
          (client'.call = e.name /\ client' # client) =>
              IF e.name # "getVersion" /\ getConfig(client).apiKey = ""
              THEN /\ client'.result \in ApiKeyErrors
                   /\ client'.sent = client.sent
                   /\ client'.last = client.last
              ELSE /\ client'.result \notin ApiKeyErrors
                   /\ client'.sent = client.sent + 1]_vars

\* A multicheque method rejected after the key was set to '' on a client
\* that had sent a request with its key.
C24_Witness ==
    /\ client.call = "deleteMulticheque"
    /\ client.ctor.apiKey # ""
    /\ client.lastKey = Header(TRUE, "")
    /\ client.sent = 1
    /\ client.last.key.v # ""
    /\ client.result \in ApiKeyErrors

-----------------------------------------------------------------------------
(* Claim C23: statelessness. *)

\* The outcome of the call run alone.
Alone(c) ==
    CASE c.fn = "verifyWebhookSignature" ->
            verifyWebhookSignature(c.body, c.signature, c.token, "none")
      [] c.fn = "parseWebhookPayload" -> parseWebhookPayload(c.body)
      [] OTHER -> verifyAndParseWebhook(c.body, c.signature, c.token, "none").out

\* C23: under any interleaving of the statements of concurrent invocations
\* of verifyWebhookSignature, parseWebhookPayload and verifyAndParseWebhook,
\* every invocation that has returned has the outcome of the same call run
\* alone, and a statement of one invocation changes nothing of another.
C23_OutcomeAsIfAlone ==
    [](\A i \in DOMAIN inv : inv[i].pc = "done" => inv[i].outcome = Alone(inv[i]))
    /\ [][\A i, j \in DOMAIN inv : (i # j /\ inv'[i] # inv[i]) => inv'[j] = inv[j]]_vars

\* Two verifications under different keys have both returned true.
C23_Witness ==
    /\ Len(inv) >= 2
    /\ inv[1].pc = "done"
    /\ inv[2].pc = "done"
    /\ inv[1].fn = "verifyWebhookSignature"
    /\ inv[2].fn = "verifyAndParseWebhook"
    /\ inv[1].token # inv[2].token
    /\ inv[1].outcome = Return(JBool(TRUE))
    /\ inv[2].outcome.error = "WebhookParseError"

====
